---- MODULE Spec2Model ----
(***************************************************************************)
(* Number assignment system (src/app.py): participant sessions claim a     *)
(* number from a per-meeting table held in the store.  Every store request *)
(* (select / update) is one atomic step; the steps of different sessions   *)
(* interleave freely, the script runs of one session are sequential.       *)
(***************************************************************************)
EXTENDS Integers, Sequences, FiniteSets, TLC

\* ---------------------------------------------------------------- bounds
NumIds == 3          \* number of participant sessions (one uuid each)
MaxNumber == 2       \* max_number of every provisioned meeting
MaxClock == 1        \* datetime.now() ranges over 1..MaxClock
NumCreators == 2     \* number of concurrent "Create Meeting" submissions
MaxCap == 5          \* max_number of a meeting being created ranges over 1..MaxCap
batch_size == 2      \* line 83 (100 in the source), scaled with MaxCap
ProvSessions == 1    \* participant sessions that open a meeting being created

\* ------------------------------------------------------------- constants
None == 0            \* Python None / absent session key

Ids == 1..NumIds
ProvisionedTables == {"meeting_1_a"}
TableNames == ProvisionedTables \cup {"meeting_9_x"}

VARIABLES
    tables,      \* existing table name -> sequence of rows
    metadata,    \* rows of meetings_metadata
    pc,          \* position of each session's script run
    url,         \* query parameter "table" of each session
    cache,       \* st.session_state["assigned_number"] (None = absent)
    chosen,      \* local assigned_number between lines 191 and 197
    result,      \* what the finished script run displayed
    atStart,     \* what the store looked like when the run started
    prov         \* each "Create Meeting" submission: position, arguments, loop index

vars == <<tables, metadata, pc, url, cache, chosen, result, atStart, prov>>

Creators == 1..NumCreators

\* the table name a "Create Meeting" submission generates (line 247)
NewTableNames == TableNames \ ProvisionedTables

\* a submission that has not been made yet
NoSubmission == [pc |-> "idle", table_name |-> "", max_number |-> 0, i |-> 0]

\* ------------------------------------------------------- store primitives
\* one row of a meeting table as inserted by create_meeting_table
NewRow(j) == [number |-> j, assigned |-> FALSE, assigned_at |-> None, user_id |-> None]

\* the rows 1..max_number of a provisioned meeting
NewTable(max_number) == [j \in 1..max_number |-> NewRow(j)]

MetadataRow(t, max_number) == [table_name |-> t, max_number |-> max_number]

check_table_existsAlways(tbls, t) == TRUE

\* select("*").limit(1) succeeds iff the table exists
check_table_exists(tbls, t) == t \in DOMAIN tbls

\* table(...).select("*").eq(f, v).execute().data
SelectEq(rows, f, v) == SelectSeq(rows, LAMBDA r : r[f] = v)

UnassignedRowsNoFilter(rows) == rows

\* line 188: select("*").eq("assigned", False)
UnassignedRows(rows) == SelectEq(rows, "assigned", FALSE)

\* line 176: select("*").eq("user_id", user_id)
ExistingRows(rows, user_id) == SelectEq(rows, "user_id", user_id)

UpdateEqNumberNoFilter(rows, n, at, user_id) ==
    [k \in DOMAIN rows |->
        [rows[k] EXCEPT !.assigned = TRUE, !.assigned_at = at, !.user_id = user_id]]

UpdateEqNumberToggle(rows, n, at, user_id) ==
    [k \in DOMAIN rows |->
        IF rows[k].number = n
        THEN [rows[k] EXCEPT !.assigned = ~@, !.assigned_at = at, !.user_id = user_id]
        ELSE rows[k]]

UpdateEqNumberNoUser(rows, n, at, user_id) ==
    [k \in DOMAIN rows |->
        IF rows[k].number = n
        THEN [rows[k] EXCEPT !.assigned = TRUE, !.assigned_at = at]
        ELSE rows[k]]

\* lines 192-196: update({...}).eq("number", assigned_number): unconditional
UpdateEqNumber(rows, n, at, user_id) ==
    [k \in DOMAIN rows |->
        IF rows[k].number = n
        THEN [rows[k] EXCEPT !.assigned = TRUE, !.assigned_at = at, !.user_id = user_id]
        ELSE rows[k]]

NeedsAssignmentAlways(c) == TRUE

\* line 186: "assigned_number" not in st.session_state
NeedsAssignment(c) == c = None

\* ------------------------------------------------------------ results
NoResult == [status |-> "none", number |-> None]
Shown(n) == [status |-> "ok", number |-> n]
NotFound == [status |-> "not_found", number |-> None]
Exhausted == [status |-> "exhausted", number |-> None]
Error == [status |-> "error", number |-> None]

\* ------------------------------------------------------------ history
\* every row of table t is assigned
Full(tbls, t) == t \in DOMAIN tbls /\ \A k \in DOMAIN tbls[t] : tbls[t][k].assigned

\* identities other than i whose script run on table t displayed a number
Served(t, i) == {j \in Ids \ {i} : url[j] = t /\ cache[j] # None}

\* what a script run of session i on table t finds when it starts:
\*   full   - no unassigned row is left
\*   served - as many other identities as the table has rows hold a number
\*   had    - the session already has a number from an earlier run
Snapshot(i, t) ==
    [full |-> Full(tables, t),
     served |-> IF t \in DOMAIN tables
                THEN Cardinality(Served(t, i)) >= Len(tables[t])
                ELSE FALSE,
     had |-> cache[i] # None]

NoSnapshot == [full |-> FALSE, served |-> FALSE, had |-> FALSE]

\* ------------------------------------------------------------ Init
Init ==
    /\ tables = [t \in ProvisionedTables |-> NewTable(MaxNumber)]
    /\ metadata = [k \in 1..1 |-> MetadataRow(CHOOSE t \in ProvisionedTables : TRUE, MaxNumber)]
    /\ prov = [c \in Creators |-> NoSubmission]
    /\ pc = [i \in Ids |-> "new"]
    /\ url = [i \in Ids |-> "meeting_9_x"]
    /\ cache = [i \in Ids |-> None]
    /\ chosen = [i \in Ids |-> None]
    /\ result = [i \in Ids |-> NoResult]
    /\ atStart = [i \in Ids |-> NoSnapshot]

\* ------------------------------------------------------------ actions
\* lines 163-172 of a script run on table t: the existence guard, then the
\* heading read from meetings_metadata (a failure there is swallowed)
BeginRun(i, t) ==
    /\ atStart' = [atStart EXCEPT ![i] = Snapshot(i, t)]
    /\ IF check_table_exists(tables, t)
       THEN /\ pc' = [pc EXCEPT ![i] = "lookup"]
            /\ result' = [result EXCEPT ![i] = NoResult]
       ELSE /\ pc' = [pc EXCEPT ![i] = "done"]
            /\ result' = [result EXCEPT ![i] = NotFound]
    /\ UNCHANGED <<tables, metadata, cache, chosen, prov>>

\* a browser opens the participant link: new session, new uuid (lines
\* 148-156), first script run
OpenPage(i, t) ==
    /\ pc[i] = "new"
    /\ url' = [url EXCEPT ![i] = t]
    /\ BeginRun(i, t)

\* a widget interaction (line 211) reruns the script in the same session
Rerun(i) ==
    /\ pc[i] = "done"
    /\ UNCHANGED url
    /\ BeginRun(i, url[i])

\* lines 174-186 (and 201-209)
LookupExisting(i) ==
    /\ pc[i] = "lookup"
    /\ IF url[i] \notin DOMAIN tables
       THEN /\ pc' = [pc EXCEPT ![i] = "done"]
            /\ result' = [result EXCEPT ![i] = Error]
            /\ UNCHANGED cache
       ELSE LET existing == ExistingRows(tables[url[i]], i) IN
            IF existing # <<>>
            THEN /\ cache' = [cache EXCEPT ![i] = existing[1].number]
                 /\ result' = [result EXCEPT ![i] = Shown(existing[1].number)]
                 /\ pc' = [pc EXCEPT ![i] = "done"]
            ELSE IF NeedsAssignment(cache[i])
            THEN /\ pc' = [pc EXCEPT ![i] = "read"]
                 /\ UNCHANGED <<cache, result>>
            ELSE /\ pc' = [pc EXCEPT ![i] = "done"]
                 /\ result' = [result EXCEPT ![i] = Shown(cache[i])]
                 /\ UNCHANGED cache
    /\ UNCHANGED <<tables, metadata, url, chosen, atStart, prov>>

\* lines 188-191 (and 198-200)
ReadUnassigned(i) ==
    /\ pc[i] = "read"
    /\ IF url[i] \notin DOMAIN tables
       THEN /\ pc' = [pc EXCEPT ![i] = "done"]
            /\ result' = [result EXCEPT ![i] = Error]
            /\ UNCHANGED chosen
       ELSE LET response == UnassignedRows(tables[url[i]]) IN
            IF response # <<>>
            THEN /\ \E k \in DOMAIN response :
                      chosen' = [chosen EXCEPT ![i] = response[k].number]
                 /\ pc' = [pc EXCEPT ![i] = "update"]
                 /\ UNCHANGED result
            ELSE /\ pc' = [pc EXCEPT ![i] = "done"]
                 /\ result' = [result EXCEPT ![i] = Exhausted]
                 /\ UNCHANGED chosen
    /\ UNCHANGED <<tables, metadata, url, cache, atStart, prov>>

\* lines 192-197 (and 201-206)
UpdateAssigned(i) ==
    /\ pc[i] = "update"
    /\ IF url[i] \notin DOMAIN tables
       THEN /\ pc' = [pc EXCEPT ![i] = "done"]
            /\ result' = [result EXCEPT ![i] = Error]
            /\ UNCHANGED <<tables, cache>>
       ELSE /\ \E now \in 1..MaxClock :
                 tables' = [tables EXCEPT ![url[i]] = UpdateEqNumber(@, chosen[i], now, i)]
            /\ cache' = [cache EXCEPT ![i] = chosen[i]]
            /\ result' = [result EXCEPT ![i] = Shown(chosen[i])]
            /\ pc' = [pc EXCEPT ![i] = "done"]
    /\ chosen' = [chosen EXCEPT ![i] = None]
    /\ UNCHANGED <<metadata, url, atStart, prov>>

Next ==
    \/ \E i \in Ids, t \in TableNames : OpenPage(i, t)
    \/ \E i \in Ids : Rerun(i)
    \/ \E i \in Ids : LookupExisting(i)
    \/ \E i \in Ids : ReadUnassigned(i)
    \/ \E i \in Ids : UpdateAssigned(i)

Spec == Init /\ [][Next]_vars

\* ------------------------------------------------------------ provisioning
participant == <<pc, url, cache, chosen, result, atStart>>

\* table(...).insert(data): the rows are appended
InsertRows(rows, data) == rows \o data

\* lines 84-87: the batch that starts at loop index i
Batch(i, max_number) ==
    LET end == IF i + batch_size < max_number THEN i + batch_size ELSE max_number
    IN  [k \in 1..(end - i) |-> NewRow(i + k)]

\* line 94: delete().eq("table_name", table_name)
DeleteMetadata(rows, t) == SelectSeq(rows, LAMBDA r : r.table_name # t)

\* lines 75 and 95: CREATE TABLE / DROP TABLE IF EXISTS
WithTable(tbls, t) == [u \in DOMAIN tbls \cup {t} |-> IF u = t THEN <<>> ELSE tbls[u]]
WithoutTable(tbls, t) == [u \in DOMAIN tbls \ {t} |-> tbls[u]]

\* lines 100-107
get_available_meetings(rows) == rows

Goto(c, l) == prov' = [prov EXCEPT ![c].pc = l]

\* lines 245-252: the form is submitted; the name guard, then create_meeting_table
Submit(c, t, max_number) ==
    /\ prov[c].pc = "idle"
    /\ prov' = [prov EXCEPT ![c] =
            [pc |-> IF check_table_exists(tables, t) THEN "exists" ELSE "metadata",
             table_name |-> t, max_number |-> max_number, i |-> 0]]
    /\ UNCHANGED <<tables, metadata, participant>>

\* lines 58-63
InsertMetadata(c) ==
    /\ prov[c].pc = "metadata"
    /\ metadata' = Append(metadata, MetadataRow(prov[c].table_name, prov[c].max_number))
    /\ Goto(c, "create")
    /\ UNCHANGED <<tables, participant>>

\* lines 66-75: CREATE TABLE raises when the table exists
CreateTable(c) ==
    /\ prov[c].pc = "create"
    /\ IF prov[c].table_name \in DOMAIN tables
       THEN /\ Goto(c, "rollback")
            /\ UNCHANGED tables
       ELSE /\ tables' = WithTable(tables, prov[c].table_name)
            /\ Goto(c, "verify")
    /\ UNCHANGED <<metadata, participant>>

\* lines 78-80
VerifyTable(c) ==
    /\ prov[c].pc = "verify"
    /\ IF check_table_exists(tables, prov[c].table_name)
       THEN Goto(c, "insert")
       ELSE Goto(c, "rollback")
    /\ UNCHANGED <<tables, metadata, participant>>

\* lines 84-90: one pass of the batch loop; return True after the last one
InsertBatch(c) ==
    /\ prov[c].pc = "insert"
    /\ IF prov[c].table_name \notin DOMAIN tables
       THEN /\ Goto(c, "rollback")
            /\ UNCHANGED tables
       ELSE /\ tables' = [tables EXCEPT ![prov[c].table_name] =
                    InsertRows(@, Batch(prov[c].i, prov[c].max_number))]
            /\ prov' = [prov EXCEPT
                    ![c].i = @ + batch_size,
                    ![c].pc = IF prov[c].i + batch_size < prov[c].max_number
                              THEN "insert" ELSE "created"]
    /\ UNCHANGED <<metadata, participant>>

\* any store request of lines 58-88 raises: control passes to line 91
StoreFails(c) ==
    /\ prov[c].pc \in {"metadata", "create", "insert"}
    /\ Goto(c, "rollback")
    /\ UNCHANGED <<tables, metadata, participant>>

\* line 94
RollbackMetadata(c) ==
    /\ prov[c].pc = "rollback"
    /\ metadata' = DeleteMetadata(metadata, prov[c].table_name)
    /\ Goto(c, "drop")
    /\ UNCHANGED <<tables, participant>>

\* line 95, then return False
RollbackTable(c) ==
    /\ prov[c].pc = "drop"
    /\ tables' = WithoutTable(tables, prov[c].table_name)
    /\ Goto(c, "failed")
    /\ UNCHANGED <<metadata, participant>>

\* lines 96-98: a rollback request raises; the error is shown, return False
RollbackFails(c) ==
    /\ prov[c].pc \in {"rollback", "drop"}
    /\ Goto(c, "failed")
    /\ UNCHANGED <<tables, metadata, participant>>

NextProv ==
    \/ \E c \in Creators, t \in NewTableNames, m \in 1..MaxCap : Submit(c, t, m)
    \/ \E c \in Creators : InsertMetadata(c)
    \/ \E c \in Creators : CreateTable(c)
    \/ \E c \in Creators : VerifyTable(c)
    \/ \E c \in Creators : InsertBatch(c)
    \/ \E c \in Creators : StoreFails(c)
    \/ \E c \in Creators : RollbackMetadata(c)
    \/ \E c \in Creators : RollbackTable(c)
    \/ \E c \in Creators : RollbackFails(c)
    \/ \E i \in 1..ProvSessions, t \in NewTableNames : OpenPage(i, t)
    \/ \E i \in 1..ProvSessions : Rerun(i)
    \/ \E i \in 1..ProvSessions : LookupExisting(i)
    \/ \E i \in 1..ProvSessions : ReadUnassigned(i)
    \/ \E i \in 1..ProvSessions : UpdateAssigned(i)

SpecProv == Init /\ [][NextProv]_vars

Slot == [number : 1..MaxNumber, assigned : BOOLEAN, assigned_at : 0..MaxClock,
         user_id : 0..NumIds]

TypeOK ==
    /\ DOMAIN tables \subseteq TableNames
    /\ \A t \in DOMAIN tables : \A k \in DOMAIN tables[t] : tables[t][k] \in Slot
    /\ pc \in [Ids -> {"new", "lookup", "read", "update", "done"}]
    /\ url \in [Ids -> TableNames]
    /\ cache \in [Ids -> 0..MaxNumber]
    /\ chosen \in [Ids -> 0..MaxNumber]
    /\ \A i \in Ids : chosen[i] # None <=> pc[i] = "update"

\* ------------------------------------------------------------ helpers
\* sessions that opened table t
SessionsOf(t) == {i \in Ids : pc[i] # "new" /\ url[i] = t}

\* the store's holders of number n in table t
HoldersOf(t, n) ==
    {tables[t][k].user_id : k \in {k \in DOMAIN tables[t] :
        tables[t][k].number = n /\ tables[t][k].user_id # None}}

\* identities to which number n of table t was displayed or is recorded
HandedTo(t, n) == {i \in SessionsOf(t) : cache[i] = n} \cup HoldersOf(t, n)

\* the numbers the store records for identity i in table t
NumbersOf(t, i) ==
    {tables[t][k].number : k \in {k \in DOMAIN tables[t] : tables[t][k].user_id = i}}

AssignedCount(t) == Cardinality({k \in DOMAIN tables[t] : tables[t][k].assigned})

\* the step is taken by the script run of session i
StepOf(i) == pc'[i] # pc[i]

\* ------------------------------------------------------------ C1
\* C1 (uniqueness): no number of a pool is ever displayed to, or recorded
\* as held by, two different identities.
C1_Uniqueness ==
    \A t \in DOMAIN tables : \A n \in 1..MaxNumber :
        Cardinality(HandedTo(t, n)) <= 1

\* ------------------------------------------------------------ C2
\* C2: when N distinct identities have each run allocate on a fresh pool of
\* capacity >= N and all calls have finished, every call displayed a number,
\* the numbers are pairwise distinct and exactly N rows are assigned, one per
\* identity.
C2_ConcurrentDistinct ==
    \A t \in DOMAIN tables :
        LET S == SessionsOf(t) IN
        (S # {} /\ Cardinality(S) <= Len(tables[t]) /\ \A i \in S : pc[i] = "done")
        => /\ \A i \in S : result[i].status = "ok"
           /\ \A i, j \in S : i # j => result[i].number # result[j].number
           /\ AssignedCount(t) = Cardinality(S)
           /\ \A i \in S : NumbersOf(t, i) = {result[i].number}

\* ------------------------------------------------------------ C3
\* C3 (idempotence): a displayed number is remembered by the session, and
\* once a session has been given a number n every later run of that session
\* ends by displaying the same n.
C3_Idempotence ==
    /\ [](\A i \in Ids : result[i].status = "ok" => cache[i] = result[i].number)
    /\ [][\A i \in Ids :
            (cache[i] # None /\ pc[i] # "done" /\ pc'[i] = "done")
            => result'[i] = Shown(cache[i])]_vars

\* a session that already had a number, and whose row the store now records
\* for somebody else, ran again and was shown its number
C3_Witness ==
    \E i \in Ids :
        /\ pc[i] = "done" /\ atStart[i].had /\ result[i] = Shown(cache[i])
        /\ NumbersOf(url[i], i) = {}

\* ------------------------------------------------------------ C4
\* C4: once a row is assigned, its (assigned, assigned_at, user_id) never
\* changes again.
C4_AssignedImmutable ==
    [][\A t \in DOMAIN tables : \A k \in DOMAIN tables[t] :
            tables[t][k].assigned
            => /\ t \in DOMAIN tables'
               /\ k \in DOMAIN tables'[t]
               /\ tables'[t][k] = tables[t][k]]_vars

\* ------------------------------------------------------------ C5
\* C5 (read-your-writes): after a run of identity i displayed number n, the
\* store's row n of that pool has user_id = i in every later state.
C5_ReadYourWrites ==
    \A i \in Ids :
        (pc[i] # "new" /\ cache[i] # None /\ url[i] \in DOMAIN tables)
        => cache[i] \in NumbersOf(url[i], i)

\* ------------------------------------------------------------ C6
\* C6: in every state of a pool at most one row has a given user_id.
C6_OneSlotPerIdentity ==
    \A t \in DOMAIN tables : \A i \in Ids :
        Len(ExistingRows(tables[t], i)) <= 1

\* an identity that holds a row has run again and finished
C6_Witness ==
    \E i \in Ids :
        /\ pc[i] = "done" /\ atStart[i].had
        /\ url[i] \in DOMAIN tables
        /\ Len(ExistingRows(tables[url[i]], i)) = 1

C8_ExhaustedAfterCapacity ==
    \A i \in Ids :
        (pc[i] = "done" /\ atStart[i].served /\ ~atStart[i].had)
        => result[i] = Exhausted

\* ------------------------------------------------------------ C9
\* C9: a run on a table name that does not exist ends with the not-found
\* error at once, and changes no row of any table, no metadata and no
\* session number.
C9_NotFoundBeforeWrite ==
    [][\A i \in Ids :
            (StepOf(i) /\ url'[i] \notin DOMAIN tables)
            => /\ pc'[i] = "done"
               /\ result'[i] = NotFound
               /\ tables' = tables
               /\ metadata' = metadata
               /\ cache' = cache]_vars

\* a session opened an unknown table and was refused
C9_Witness ==
    \E i \in Ids :
        pc[i] = "done" /\ url[i] \notin DOMAIN tables /\ result[i] = NotFound

\* ------------------------------------------------------------ C10
\* C10: the claim step of a run changes exactly one row, from unassigned to
\* assigned with the caller's identity, and leaves every other row and every
\* other table unchanged.
C10_ClaimFrame ==
    [][\A i \in Ids :
            (pc[i] = "update" /\ StepOf(i))
            => /\ DOMAIN tables' = DOMAIN tables
               /\ \A t \in DOMAIN tables \ {url[i]} : tables'[t] = tables[t]
               /\ DOMAIN tables'[url[i]] = DOMAIN tables[url[i]]
               /\ \E k \in DOMAIN tables[url[i]] :
                    /\ ~tables[url[i]][k].assigned
                    /\ tables'[url[i]][k].assigned
                    /\ tables'[url[i]][k].user_id = i
                    /\ tables'[url[i]][k].number = tables[url[i]][k].number
                    /\ \A m \in DOMAIN tables[url[i]] \ {k} :
                          tables'[url[i]][m] = tables[url[i]][m]]_vars

\* ------------------------------------------------------------ C11
\* the registry lists table name t
InRegistry(rows, t) == \E k \in DOMAIN rows : rows[k].table_name = t

\* C11: when create_meeting_table returns False, neither a metadata record
\* nor a table (hence no slot) of that meeting remains.
C11_RollbackLeavesNoTrace ==
    [][\A c \in Creators :
            (prov[c].pc # "failed" /\ prov'[c].pc = "failed")
            => /\ ~InRegistry(get_available_meetings(metadata'), prov[c].table_name)
               /\ ~check_table_exists(tables', prov[c].table_name)]_vars

\* ------------------------------------------------------------ C12
\* the pool is listed by the registry or accepted by the participant page
Visible(t) ==
    \/ InRegistry(get_available_meetings(metadata), t)
    \/ check_table_exists(tables, t)

\* table t holds exactly the numbers 1..max_number of each of its records
Complete(t) ==
    /\ t \in DOMAIN tables
    /\ InRegistry(metadata, t)
    /\ \A k \in DOMAIN metadata :
          metadata[k].table_name = t
          => /\ Len(tables[t]) = metadata[k].max_number
             /\ {tables[t][j].number : j \in DOMAIN tables[t]} = 1..metadata[k].max_number

\* C12: in every state, a pool that the registry lists or that the
\* participant page accepts has its complete slot set 1..capacity.
C12_NeverPartiallyVisible ==
    \A t \in TableNames : Visible(t) => Complete(t)

\* ------------------------------------------------------------ C13
\* lines 344-348: View Statistics
total_numbers(rows) == Len(rows)
assigned_numbers(rows) == Len(SelectEq(rows, "assigned", TRUE))
unassigned_numbers(rows) == Len(UnassignedRows(rows))

\* percentage = assigned / total * 100 (0 when total = 0), as the fraction
\* <<numerator, denominator>>
percentage(rows) ==
    IF total_numbers(rows) > 0
    THEN <<assigned_numbers(rows) * 100, total_numbers(rows)>>
    ELSE <<0, 1>>

\* p <= q for fractions with positive denominators
FractionLeq(p, q) == p[1] * q[2] <= q[1] * p[2]

\* C13: in every state assigned + unassigned = total for every pool, and
\* no step of an allocate call decreases the assigned count or the
\* percentage.
C13_StatisticsMonotone ==
    /\ [](\A t \in DOMAIN tables :
            assigned_numbers(tables[t]) + unassigned_numbers(tables[t])
                = total_numbers(tables[t]))
    /\ [][\A t \in DOMAIN tables :
            /\ t \in DOMAIN tables'
            /\ assigned_numbers(tables[t]) <= assigned_numbers(tables'[t])
            /\ FractionLeq(percentage(tables[t]), percentage(tables'[t]))]_vars

\* allocations have proceeded: a pool is partly assigned and one of its
\* rows has been claimed twice
C13_Witness ==
    \E t \in DOMAIN tables :
        /\ 0 < assigned_numbers(tables[t])
        /\ assigned_numbers(tables[t]) < total_numbers(tables[t])
        /\ Cardinality({i \in SessionsOf(t) : cache[i] # None}) > assigned_numbers(tables[t])

\* ------------------------------------------------------------ C14
\* the metadata records of table name t
RecordsOf(rows, t) == SelectSeq(rows, LAMBDA r : r.table_name = t)

\* submissions of table name t that returned True
CreatedBy(t) == {c \in Creators : prov[c].table_name = t /\ prov[c].pc = "created"}

\* C14: the registry never holds two metadata records for one identifier,
\* at most one of the submissions that generate the same identifier
\* succeeds, and a submission that fails on an identifier whose pool was
\* created by another submission writes nothing.
C14_CollisionWritesNothing ==
    /\ [](\A t \in TableNames :
            /\ Len(RecordsOf(metadata, t)) <= 1
            /\ Cardinality(CreatedBy(t)) <= 1)
    /\ [][\A c \in Creators :
            (prov'[c] # prov[c] /\ CreatedBy(prov'[c].table_name) \ {c} # {})
            => (metadata' = metadata /\ tables' = tables)]_vars

\* ------------------------------------------------------------ C15
\* C15: in every state, a row has a user_id iff it is assigned (and then
\* it has its timestamp too).
C15_HolderIffAssigned ==
    \A t \in DOMAIN tables : \A k \in DOMAIN tables[t] :
        /\ tables[t][k].user_id # None <=> tables[t][k].assigned
        /\ tables[t][k].assigned_at # None <=> tables[t][k].assigned

\* a pool with an inserted row still unassigned and a row claimed, the
\* claimed one overwritten by a second caller
C15_Witness ==
    \E t \in DOMAIN tables :
        /\ \E k \in DOMAIN tables[t] : tables[t][k] = NewRow(tables[t][k].number)
        /\ \E k \in DOMAIN tables[t] :
              /\ tables[t][k].assigned
              /\ \E i \in SessionsOf(t) :
                    cache[i] = tables[t][k].number /\ tables[t][k].user_id # i

\* ------------------------------------------------------------ C16
\* the number column of table t, in row order
NumbersColumn(tbls, t) == [k \in DOMAIN tbls[t] |-> tbls[t][k].number]

\* C16: when create_meeting_table returns True for capacity c, the table
\* holds exactly the rows 1..c, each once and all unassigned; afterwards
\* no step adds or removes a row of it.
C16_SlotsExactlyOneToCapacity ==
    [][\A c \in Creators :
            /\ (prov[c].pc # "created" /\ prov'[c].pc = "created")
               => /\ prov[c].table_name \in DOMAIN tables'
                  /\ tables'[prov[c].table_name] = NewTable(prov[c].max_number)
            /\ prov[c].pc = "created"
               => /\ prov[c].table_name \in DOMAIN tables'
                  /\ NumbersColumn(tables', prov[c].table_name)
                        = NumbersColumn(tables, prov[c].table_name)]_vars

\* ------------------------------------------------------------ C17
\* the claim attempt of session i has lost: the row it chose was assigned
\* by another caller after i observed it
LostRace(i) ==
    /\ pc[i] = "update"
    /\ url[i] \in DOMAIN tables
    /\ \E k \in DOMAIN tables[url[i]] :
          tables[url[i]][k].number = chosen[i] /\ tables[url[i]][k].assigned

\* C17: a run makes a bounded number of claim attempts, and an attempt that
\* lost to a concurrent caller while unassigned rows still exist neither
\* takes the lost row nor ends the run with it: the run tries another
\* candidate.
C17_RetryOnConflict ==
    [][\A i \in Ids :
            (LostRace(i) /\ StepOf(i) /\ UnassignedRows(tables[url[i]]) # <<>>)
            => /\ tables'[url[i]] = tables[url[i]]
               /\ result'[i] # Shown(chosen[i])
               /\ pc'[i] \in {"read", "update"}]_vars

\* ------------------------------------------------------------ C18
\* C18: a session issues a claim write only in a run that started without a
\* number, and once it has a number none of its steps writes to the store
\* and the number it shows never changes, whatever the store records.
C18_AtMostOneClaimWrite ==
    [][\A i \in Ids :
            /\ (pc[i] = "update" /\ StepOf(i)) => (cache[i] = None /\ ~atStart[i].had)
            /\ cache[i] # None
               => /\ cache'[i] = cache[i]
                  /\ pc'[i] # "update"
                  /\ (StepOf(i) => tables' = tables)]_vars

\* a session whose row was taken over ran again while an unassigned row was
\* left, and finished without writing
C18_Witness ==
    \E i \in Ids :
        /\ pc[i] = "done" /\ atStart[i].had
        /\ url[i] \in DOMAIN tables
        /\ NumbersOf(url[i], i) = {}
        /\ UnassignedRows(tables[url[i]]) # <<>>
====
